---- MODULE Spec2Model ----
(***************************************************************************)
(* Linqkeun Mini ERP API: the request models and handlers of main.py, the  *)
(* entity schemas of schemas.py, and the storage collaborator (database),  *)
(* as a state machine.                                                     *)
(*                                                                         *)
(* Python values are tagged records: [t |-> "none"], [t |-> "str", v |-> s]*)
(* with s a sequence of text tokens, [t |-> "num", v |-> n] with n the     *)
(* number in hundredths (fixed point, Scale = 100), [t |-> "list", ...],   *)
(* [t |-> "oid", ...] for a storage ObjectId, [t |-> "datetime", ...].     *)
(* A dict is a function from key names to values; an omitted key is a key  *)
(* that is not in the DOMAIN.                                              *)
(***************************************************************************)
EXTENDS Integers, Sequences, FiniteSets, TLC

VARIABLES db, nextId, clock, resp, created, pc, req, loc

vars == <<db, nextId, clock, resp, created, pc, req, loc>>

(* ---------------- bounds ---------------- *)
MaxCreates == 2
NumProcs == 2
MaxEmailLen == 5

(* ---------------- Python values ---------------- *)
Scale == 100

None == [t |-> "none"]
Str(s) == [t |-> "str", v |-> s]
Num(n) == [t |-> "num", v |-> n]
List(s) == [t |-> "list", v |-> s]
ObjectId(n) == [t |-> "oid", v |-> n]
DateTime(n) == [t |-> "datetime", v |-> n]
EmptyDict == [k \in {} |-> None]

\* dict.get(key, default)
Get(d, k, dflt) == IF k \in DOMAIN d THEN d[k] ELSE dflt

\* str(x): an ObjectId prints as its own text, None as "None", a str as itself
PyStr(x) ==
  CASE x.t = "oid" -> Str(<<"oid" \o ToString(x.v)>>)
    [] x.t = "none" -> Str(<<"None">>)
    [] x.t = "num" -> Str(<<ToString(x.v)>>)
    [] OTHER -> x

\* round(x, 2) of a value held in units of 1/(Scale*d): nearest, ties to even
RoundHalfEven(n, d) ==
  LET q == n \div d
      r == n % d
  IN  IF 2 * r < d THEN q
      ELSE IF 2 * r > d THEN q + 1
      ELSE IF q % 2 = 0 THEN q ELSE q + 1

RECURSIVE SumSeq(_)
SumSeq(s) == IF s = <<>> THEN 0 ELSE Head(s) + SumSeq(Tail(s))

(* ---------------- pydantic field declarations ---------------- *)
Fld(name, kind, required, opt, dflt) ==
  [name |-> name, kind |-> kind, req |-> required, opt |-> opt, dflt |-> dflt,
   cons |-> {}, item |-> <<>>, lits |-> {}]
Required(name, kind) == Fld(name, kind, TRUE, FALSE, None)
Optional(name, kind) == Fld(name, kind, FALSE, TRUE, None)
Default(name, kind, dflt) == Fld(name, kind, FALSE, FALSE, dflt)
gt(n) == [op |-> "gt", n |-> n]
ge(n) == [op |-> "ge", n |-> n]
le(n) == [op |-> "le", n |-> n]
Field(f, cons) == [f EXCEPT !.cons = cons]
ListOf(f, item) == [f EXCEPT !.item = item]
Literal(f, lits) == [f EXCEPT !.lits = lits]

\* le read as a strict bound
Satisfies_strict(n, c) ==
  CASE c.op = "gt" -> n > c.n
    [] c.op = "ge" -> n >= c.n
    [] c.op = "le" -> n < c.n
Satisfies(n, c) ==
  CASE c.op = "gt" -> n > c.n
    [] c.op = "ge" -> n >= c.n
    [] c.op = "le" -> n <= c.n

\* EmailStr: one "@", a dot-atom local part, a domain of two or more labels
Positions(s, tok) == {i \in 1..Len(s) : s[i] = tok}
DotAtom(s) ==
  /\ Len(s) > 0
  /\ s[1] # "." /\ s[Len(s)] # "."
  /\ \A i \in 1..(Len(s) - 1) : ~(s[i] = "." /\ s[i + 1] = ".")
IsEmail(s) ==
  /\ Cardinality(Positions(s, "@")) = 1
  /\ LET at == CHOOSE i \in Positions(s, "@") : TRUE
         local == SubSeq(s, 1, at - 1)
         domain == SubSeq(s, at + 1, Len(s))
     IN  /\ DotAtom(local)
         /\ DotAtom(domain)
         /\ Positions(domain, ".") # {}

(* ---------------- pydantic validation and model_dump ---------------- *)
RECURSIVE Accepts(_, _)
ValueOK(f, v) ==
  IF v = None THEN f.opt
  ELSE CASE f.kind = "str" -> v.t = "str"
         [] f.kind = "email" -> v.t = "str" /\ IsEmail(v.v)
         [] f.kind = "float" -> v.t = "num" /\ \A c \in f.cons : Satisfies(v.v, c)
         [] f.kind = "literal" -> v.t = "str" /\ v \in f.lits
         [] f.kind = "date" -> v.t = "date"
         [] f.kind = "bool" -> v.t = "bool"
         [] f.kind = "list" ->
              /\ v.t = "list"
              /\ \A j \in 1..Len(v.v) : Accepts(f.item, v.v[j])
Accepts(model, p) ==
  \A i \in 1..Len(model) :
    IF model[i].name \in DOMAIN p THEN ValueOK(model[i], p[model[i].name])
    ELSE ~model[i].req

FieldNames(model) == {model[i].name : i \in 1..Len(model)}
FieldOf(model, n) == model[CHOOSE i \in 1..Len(model) : model[i].name = n]

RECURSIVE model_dump(_, _)
DumpValue(f, v) ==
  IF f.kind = "list" /\ v.t = "list"
  THEN List([j \in 1..Len(v.v) |-> model_dump(f.item, v.v[j])])
  ELSE v
model_dump(model, p) ==
  [n \in FieldNames(model) |->
     IF n \in DOMAIN p THEN DumpValue(FieldOf(model, n), p[n])
     ELSE FieldOf(model, n).dflt]

(* ---------------- main.py request models ---------------- *)
\* name declared Optional[str] = None
CreateCustomer_optionalName ==
  << Optional("name", "str"),
     Optional("email", "str"),
     Optional("phone", "str") >>
CreateCustomer ==
  << Required("name", "str"),
     Optional("email", "str"),
     Optional("phone", "str") >>

CreateProduct ==
  << Required("sku", "str"),
     Required("name", "str"),
     Required("price", "float") >>

InvoiceItem ==
  << Required("product_id", "str"),
     Required("name", "str"),
     Required("quantity", "float"),
     Required("price", "float"),
     Default("tax_rate", "float", Num(11)) >>

CreateInvoice ==
  << Required("customer_id", "str"),
     ListOf(Required("items", "list"), InvoiceItem),
     Default("currency", "str", Str(<<"IDR">>)) >>

(* ---------------- schemas.py entity schemas ---------------- *)
Date(n) == [t |-> "date", v |-> n]

User ==
  << Required("full_name", "str"),
     Required("email", "email"),
     Optional("phone", "str"),
     Default("role", "str", Str(<<"employee">>)),
     Default("is_active", "bool", [t |-> "bool", v |-> TRUE]) >>

Customer ==
  << Required("name", "str"),
     Optional("email", "email"),
     Optional("phone", "str"),
     Optional("company", "str"),
     Optional("address", "str"),
     ListOf(Default("tags", "list", List(<<>>)), << >>),
     Optional("source", "str"),
     Optional("assigned_to", "str") >>

Lead ==
  << Required("customer_name", "str"),
     Optional("contact_email", "email"),
     Literal(Default("stage", "literal", Str(<<"new">>)),
             {Str(<<"new">>), Str(<<"qualified">>), Str(<<"proposal">>),
              Str(<<"won">>), Str(<<"lost">>)}),
     Default("value", "float", Num(0)),
     Optional("expected_close", "date") >>

schemas_InvoiceItem ==
  << Required("product_id", "str"),
     Required("name", "str"),
     Field(Required("quantity", "float"), {gt(0)}),
     Field(Required("price", "float"), {ge(0)}),
     Default("tax_rate", "float", Num(11)) >>

Invoice ==
  << Optional("number", "str"),
     Required("customer_id", "str"),
     Default("date_issued", "date", Date(clock)),
     Optional("due_date", "date"),
     Literal(Default("status", "literal", Str(<<"draft">>)),
             {Str(<<"draft">>), Str(<<"sent">>), Str(<<"paid">>),
              Str(<<"overdue">>), Str(<<"cancelled">>)}),
     Default("currency", "str", Str(<<"IDR">>)),
     ListOf(Required("items", "list"), schemas_InvoiceItem),
     Optional("notes", "str") >>

Supplier ==
  << Required("name", "str"),
     Optional("email", "email"),
     Optional("phone", "str"),
     Optional("address", "str"),
     Field(Optional("rating", "float"), {ge(0), le(5 * Scale)}) >>

Employee ==
  << Required("employee_id", "str"),
     Required("name", "str"),
     Optional("email", "email"),
     Optional("position", "str"),
     Default("salary", "float", Num(0)) >>

Schemas ==
  [User |-> User, Customer |-> Customer, Lead |-> Lead, Supplier |-> Supplier,
   Employee |-> Employee, InvoiceItem |-> schemas_InvoiceItem, Invoice |-> Invoice]

(* ---------------- storage collaborator (database) ---------------- *)
Collections == {"customer", "product", "invoice"}

\* dict[key] = value
SetKey(d, k, v) == (k :> v) @@ d

\* insert_one: the document gets a fresh identifier and goes to the end
InsertOne(store, coll, data, id) ==
  [store EXCEPT ![coll] = Append(@, SetKey(data, "_id", ObjectId(id)))]

\* find(collection, {}, limit): up to limit documents in storage order
get_documents(store, coll, limit) ==
  LET n == IF limit < 0 THEN 0
           ELSE IF limit < Len(store[coll]) THEN limit ELSE Len(store[coll])
  IN  SubSeq(store[coll], 1, n)

(* ---------------- main.py derivations ---------------- *)
list_customers_limit == 50
list_products_limit == 100
list_invoices_limit == 50

\* one document-level rate of 0.11 for every line
InvoiceTotal_flatRate(inv) ==
  LET items == inv["items"].v
      line(i) == i["quantity"].v * i["price"].v * (Scale + 11)
  IN  Num(RoundHalfEven(SumSeq([j \in 1..Len(items) |-> line(items[j])]), Scale * Scale))

\* main.py:144-145
InvoiceTotal(inv) ==
  LET items == inv["items"].v
      line(i) == i["quantity"].v * i["price"].v * (Scale + Get(i, "tax_rate", Num(0)).v)
  IN  Num(RoundHalfEven(SumSeq([j \in 1..Len(items) |-> line(items[j])]), Scale * Scale))

\* main.py:93-94
CustomerDoc(p, now) == SetKey(model_dump(CreateCustomer, p), "created_at", DateTime(now))

\* main.py:113-114
ProductDoc(p, now) == SetKey(model_dump(CreateProduct, p), "created_at", DateTime(now))

\* status and total only set when the caller sent none
InvoiceDoc_keepCaller(p, now) ==
  LET inv0 == model_dump(CreateInvoice, p)
      inv1 == SetKey(inv0, "status", Get(p, "status", Str(<<"draft">>)))
      inv2 == SetKey(inv1, "created_at", DateTime(now))
  IN  SetKey(inv2, "total", Get(p, "total", InvoiceTotal(inv2)))

\* main.py:141-145
InvoiceDoc(p, now) ==
  LET inv0 == model_dump(CreateInvoice, p)
      inv1 == SetKey(inv0, "status", Str(<<"draft">>))
      inv2 == SetKey(inv1, "created_at", DateTime(now))
  IN  SetKey(inv2, "total", InvoiceTotal(inv2))

\* {"id": cid, **doc}
Returned(doc, id) == doc @@ ("id" :> PyStr(ObjectId(id)))

\* the documents returned as stored
Normalized_raw(docs) == docs

\* d["_id"] = str(d.get("_id")) for every d
Normalized(docs) ==
  [i \in 1..Len(docs) |-> SetKey(docs[i], "_id", PyStr(Get(docs[i], "_id", None)))]

(* ---------------- request inputs ---------------- *)
Txt(s) == Str(<<s>>)
GoodEmail == Str(<<"a", "@", "b", ".", "c">>)
BadEmail == Str(<<"not-an-email">>)

CustomerPayloads ==
  { n @@ e : n \in {EmptyDict, "name" :> Txt("Acme")},
             e \in {EmptyDict, "email" :> GoodEmail, "email" :> BadEmail} }

FullProduct == [sku |-> Txt("SKU1"), name |-> Txt("Widget"), price |-> Num(10000)]
ProductPayloads ==
  { [k \in (DOMAIN FullProduct) \ K |-> FullProduct[k]] :
      K \in {{}, {"sku"}, {"name"}, {"price"}} }

ItemA ==
  [product_id |-> Txt("P1"), name |-> Txt("Widget"), quantity |-> Num(200),
   price |-> Num(10000), tax_rate |-> Num(11)]
ItemB ==
  [product_id |-> Txt("P2"), name |-> Txt("Gadget"), quantity |-> Num(100),
   price |-> Num(50)]
ItemZeroQty ==
  [product_id |-> Txt("P1"), name |-> Txt("Widget"), quantity |-> Num(0),
   price |-> Num(10000), tax_rate |-> Num(0)]
ItemNegPrice ==
  [product_id |-> Txt("P2"), name |-> Txt("Gadget"), quantity |-> Num(100),
   price |-> Num(-125), tax_rate |-> Num(5)]
ItemLists ==
  { <<>>, <<ItemA>>, <<ItemB>>, <<ItemZeroQty>>, <<ItemNegPrice>>, <<ItemA, ItemB>> }

\* ItemA with one required key left out
BrokenItems ==
  { [k \in (DOMAIN ItemA) \ {m} |-> ItemA[k]] :
      m \in {"product_id", "name", "quantity", "price"} }

InvoicePayloads ==
       { [customer_id |-> Txt("C1"), items |-> List(l)] : l \in ItemLists }
  \cup { [customer_id |-> Txt("C1"), items |-> List(<<b>>)] : b \in BrokenItems }
  \cup { [customer_id |-> Txt("C1"), items |-> List(<<ItemB>>), currency |-> Txt("USD"),
          status |-> Txt("paid"), total |-> Num(99999)],
         [customer_id |-> Txt("C1")],
         [items |-> List(<<ItemA>>), status |-> Txt("paid"), total |-> Num(99999)] }

\* the query string of a list call: no limit, or limit=n
Queries == {EmptyDict} \cup { [limit |-> n] : n \in (-1)..(MaxCreates - 1) }

(* ---------------- state ---------------- *)
Procs == 1..NumProcs
NoResp == [op |-> "none", status |-> 0, req |-> EmptyDict, body |-> EmptyDict]

Init ==
  /\ db = [c \in Collections |-> <<>>]
  /\ nextId = 1
  /\ clock = 0
  /\ resp = NoResp
  /\ created = [c \in Collections |-> {}]
  /\ pc = [p \in Procs |-> "idle"]
  /\ req = [p \in Procs |-> EmptyDict]
  /\ loc = [p \in Procs |-> EmptyDict]

(* ---------------- main.py handlers ---------------- *)
\* FastAPI answers 422 before the handler runs
Rejected(op, p) ==
  /\ resp' = [op |-> op, status |-> 422, req |-> p, body |-> EmptyDict]
  /\ UNCHANGED <<db, nextId, clock, created, pc, req, loc>>

\* create_document: one insert, or the storage reports a failure
Create(op, coll, p, doc) ==
  /\ clock < MaxCreates
  /\ clock' = clock + 1
  /\ \/ /\ db' = InsertOne(db, coll, doc, nextId)
        /\ nextId' = nextId + 1
        /\ resp' = [op |-> op, status |-> 200, req |-> p, body |-> Returned(doc, nextId)]
        /\ created' = [created EXCEPT ![coll] = @ \cup {Returned(doc, nextId)}]
     \/ /\ resp' = [op |-> op, status |-> 500, req |-> p, body |-> EmptyDict]
        /\ UNCHANGED <<db, nextId, created>>
  /\ UNCHANGED <<pc, req, loc>>

create_customer ==
  \E p \in CustomerPayloads :
    IF Accepts(CreateCustomer, p)
    THEN Create("create_customer", "customer", p, CustomerDoc(p, clock))
    ELSE Rejected("create_customer", p)

create_product ==
  \E p \in ProductPayloads :
    IF Accepts(CreateProduct, p)
    THEN Create("create_product", "product", p, ProductDoc(p, clock))
    ELSE Rejected("create_product", p)

create_invoice ==
  \E p \in InvoicePayloads :
    IF Accepts(CreateInvoice, p)
    THEN Create("create_invoice", "invoice", p, InvoiceDoc(p, clock))
    ELSE Rejected("create_invoice", p)

\* every list handler reads the customer collection
ListDocs_wrongCollection(op, coll, q, dflt) ==
  /\ \/ resp' = [op |-> op, status |-> 200, req |-> q,
                 body |-> Normalized(get_documents(db, "customer", Get(q, "limit", dflt)))]
     \/ resp' = [op |-> op, status |-> 500, req |-> q, body |-> <<>>]
  /\ UNCHANGED <<db, nextId, clock, created, pc, req, loc>>

ListDocs(op, coll, q, dflt) ==
  /\ \/ resp' = [op |-> op, status |-> 200, req |-> q,
                 body |-> Normalized(get_documents(db, coll, Get(q, "limit", dflt)))]
     \/ resp' = [op |-> op, status |-> 500, req |-> q, body |-> <<>>]
  /\ UNCHANGED <<db, nextId, clock, created, pc, req, loc>>

list_customers == \E q \in Queries : ListDocs("list_customers", "customer", q, list_customers_limit)

list_products == \E q \in Queries : ListDocs("list_products", "product", q, list_products_limit)

list_invoices == \E q \in Queries : ListDocs("list_invoices", "invoice", q, list_invoices_limit)

Next ==
  \/ create_customer
  \/ create_product
  \/ create_invoice
  \/ list_customers
  \/ list_products
  \/ list_invoices

Spec == Init /\ [][Next]_vars

(* ---------------- schemas.py: validation of an entity ---------------- *)
EmailTokens == {"a", "@", "."}
EmailTexts == UNION { [1..n -> EmailTokens] : n \in 0..MaxEmailLen }
EmailValues == {None} \cup { Str(e) : e \in EmailTexts }
RatingInputs == {-100, -1, 0, 1, 250, 499, 500, 501, 600}
AmountInputs == {-100, -1, 0, 1, 100}

EmailFieldOf ==
  [User |-> "email", Customer |-> "email", Lead |-> "contact_email",
   Supplier |-> "email", Employee |-> "email"]
BaseOf ==
  [User |-> [full_name |-> Txt("Ann")],
   Customer |-> [name |-> Txt("Acme")],
   Lead |-> [customer_name |-> Txt("Acme")],
   Supplier |-> [name |-> Txt("Parts Co")],
   Employee |-> [employee_id |-> Txt("E1"), name |-> Txt("Ann")]]

SchemaInputs ==
       { <<m, BaseOf[m]>> : m \in DOMAIN BaseOf }
  \cup { <<m, (EmailFieldOf[m] :> e) @@ BaseOf[m]>> : m \in DOMAIN BaseOf, e \in EmailValues }
  \cup { <<"Supplier", ("rating" :> r) @@ BaseOf["Supplier"]>> :
           r \in {None} \cup { Num(n) : n \in RatingInputs } }
  \cup { <<"Supplier", [rating |-> Num(250)]>> }
  \cup { <<"InvoiceItem", [product_id |-> Txt("P1"), name |-> Txt("Widget"),
                           quantity |-> Num(q), price |-> Num(a)]>> :
           q \in AmountInputs, a \in AmountInputs }
  \cup { <<"Invoice", [customer_id |-> Txt("C1"), items |-> List(l)]>> :
           l \in {<<>>, <<ItemA>>, <<ItemB>>, <<ItemZeroQty>>, <<ItemNegPrice>>} }

\* a payload handed to one of the schema classes, not yet validated
SchemaInit ==
  /\ db = [c \in Collections |-> <<>>]
  /\ nextId = 1
  /\ clock = 0
  /\ \E inp \in SchemaInputs :
       resp = [op |-> inp[1], status |-> 0, req |-> inp[2], body |-> EmptyDict]
  /\ created = [c \in Collections |-> {}]
  /\ pc = [p \in Procs |-> "idle"]
  /\ req = [p \in Procs |-> EmptyDict]
  /\ loc = [p \in Procs |-> EmptyDict]

\* Model(**payload): the validated record, or a ValidationError
validate_schema ==
  /\ resp.status = 0
  /\ LET ok == Accepts(Schemas[resp.op], resp.req)
     IN  resp' = [resp EXCEPT !.status = IF ok THEN 200 ELSE 422,
                              !.body = IF ok THEN model_dump(Schemas[resp.op], resp.req)
                                       ELSE EmptyDict]
  /\ UNCHANGED <<db, nextId, clock, created, pc, req, loc>>

SchemaNext == validate_schema

SchemaSpec == SchemaInit /\ [][SchemaNext]_vars

(* ---------------- concurrent create_invoice requests ---------------- *)
\* each request runs validate -> derive -> insert on its own thread, with
\* its payload and its document in locals
ConcPayloads ==
  { [customer_id |-> Txt("C1"), items |-> List(<<ItemA>>)],
    [customer_id |-> Txt("C2"), items |-> List(<<ItemA, ItemB>>)],
    [customer_id |-> Txt("C3"), items |-> List(<<ItemNegPrice>>), currency |-> Txt("USD"),
     status |-> Txt("paid"), total |-> Num(99999)],
    [items |-> List(<<ItemA>>)] }

conc_receive(self) ==
  /\ pc[self] = "idle"
  /\ \E p \in ConcPayloads : req' = [req EXCEPT ![self] = p]
  /\ pc' = [pc EXCEPT ![self] = "received"]
  /\ UNCHANGED <<db, nextId, clock, resp, created, loc>>

conc_validate(self) ==
  /\ pc[self] = "received"
  /\ pc' = [pc EXCEPT ![self] =
              IF Accepts(CreateInvoice, req[self]) THEN "validated" ELSE "rejected"]
  /\ UNCHANGED <<db, nextId, clock, resp, created, req, loc>>

\* the payload kept in one module-level variable shared by the requests
conc_derive_shared(self) ==
  /\ pc[self] = "validated"
  /\ LET q == CHOOSE q \in Procs : pc[q] \notin {"idle", "received", "rejected"}
     IN  loc' = [loc EXCEPT ![self] = InvoiceDoc(req[q], clock)]
  /\ clock' = clock + 1
  /\ pc' = [pc EXCEPT ![self] = "derived"]
  /\ UNCHANGED <<db, nextId, resp, created, req>>

conc_derive(self) ==
  /\ pc[self] = "validated"
  /\ loc' = [loc EXCEPT ![self] = InvoiceDoc(req[self], clock)]
  /\ clock' = clock + 1
  /\ pc' = [pc EXCEPT ![self] = "derived"]
  /\ UNCHANGED <<db, nextId, resp, created, req>>

conc_insert(self) ==
  /\ pc[self] = "derived"
  /\ \/ /\ db' = InsertOne(db, "invoice", loc[self], nextId)
        /\ nextId' = nextId + 1
        /\ loc' = [loc EXCEPT ![self] = Returned(loc[self], nextId)]
        /\ pc' = [pc EXCEPT ![self] = "done"]
     \/ /\ pc' = [pc EXCEPT ![self] = "failed"]
        /\ UNCHANGED <<db, nextId, loc>>
  /\ UNCHANGED <<clock, resp, created, req>>

ConcNext ==
  \E self \in Procs :
    \/ conc_receive(self)
    \/ conc_validate(self)
    \/ conc_derive(self)
    \/ conc_insert(self)

ConcSpec == Init /\ [][ConcNext]_vars

(* ---------------- properties: helpers ---------------- *)
CreateOps == {"create_customer", "create_product", "create_invoice"}
ListOps == {"list_customers", "list_products", "list_invoices"}
CollOf(op) ==
  CASE op \in {"create_customer", "list_customers"} -> "customer"
    [] op \in {"create_product", "list_products"} -> "product"
    [] op \in {"create_invoice", "list_invoices"} -> "invoice"
Abs(n) == IF n < 0 THEN -n ELSE n
Last(s) == s[Len(s)]
HasItems(p) == "items" \in DOMAIN p /\ p["items"].t = "list"

\* sum over the items of quantity * price * (1 + tax_rate), in units of
\* 1/Scale^3, an item without a tax_rate counted at 0.11
ExactSum(items) ==
  SumSeq([j \in 1..Len(items) |->
            items[j]["quantity"].v * items[j]["price"].v
              * (Scale + (IF "tax_rate" \in DOMAIN items[j]
                          THEN items[j]["tax_rate"].v ELSE 11))])

\* t (in hundredths) is a nearest two-decimal value of the exact sum
IsRounded2(t, exact) == 2 * Abs(t * Scale * Scale - exact) <= Scale * Scale

(* C1: every invoice create_invoice accepts is returned and persisted with *)
(* total = the sum over its items of quantity * price * (1 + tax_rate)     *)
(* rounded to 2 decimals, each item at its own tax_rate and an item that   *)
(* omits tax_rate at 0.11; deriving the total again from the returned      *)
(* items gives the same value.                                             *)
C1_TotalIsRoundedSum ==
  (resp.op = "create_invoice" /\ resp.status = 200) =>
    /\ IsRounded2(resp.body["total"].v, ExactSum(resp.req["items"].v))
    /\ Last(db["invoice"])["total"] = resp.body["total"]
    /\ InvoiceTotal(resp.body) = resp.body["total"]

C1_Witness ==
  /\ resp.op = "create_invoice" /\ resp.status = 200
  /\ resp.req["items"] = List(<<ItemA, ItemB>>)
  /\ resp.body["total"] = Num(22256)
  /\ Last(db["invoice"])["total"] = Num(22256)

(* C2: a create_invoice request whose items list is empty fails with a     *)
(* validation error, and no invoice without items is ever stored.          *)
C2_EmptyItemsRejected ==
  /\ (resp.op = "create_invoice" /\ HasItems(resp.req) /\ resp.req["items"].v = <<>>)
       => resp.status = 422
  /\ \A i \in 1..Len(db["invoice"]) : db["invoice"][i]["items"].v # <<>>

(* C3: a create_invoice request with an item whose quantity is not > 0 or  *)
(* whose price is < 0 fails with a validation error, and no invoice with   *)
(* such an item is ever stored.                                            *)
BadAmount(i) ==
  \/ "quantity" \in DOMAIN i /\ i["quantity"].v <= 0
  \/ "price" \in DOMAIN i /\ i["price"].v < 0
C3_BadQuantityRejected ==
  /\ (/\ resp.op = "create_invoice" /\ HasItems(resp.req)
      /\ \E j \in 1..Len(resp.req["items"].v) : BadAmount(resp.req["items"].v[j]))
       => resp.status = 422
  /\ \A i \in 1..Len(db["invoice"]) :
       \A j \in 1..Len(db["invoice"][i]["items"].v) :
         ~BadAmount(db["invoice"][i]["items"].v[j])

(* C4: a create request whose payload lacks a required field (customer:    *)
(* name; product: sku, name, price; invoice: customer_id, items; invoice   *)
(* item: product_id, name, quantity, price) is rejected and the storage    *)
(* after the request is the storage before it.                             *)
MissingRequired(op, p) ==
  CASE op = "create_customer" -> "name" \notin DOMAIN p
    [] op = "create_product" -> {"sku", "name", "price"} \ DOMAIN p # {}
    [] op = "create_invoice" ->
         \/ {"customer_id", "items"} \ DOMAIN p # {}
         \/ \E j \in 1..Len(p["items"].v) :
              {"product_id", "name", "quantity", "price"} \ DOMAIN p["items"].v[j] # {}
    [] OTHER -> FALSE
C4_MissingFieldRejected ==
  [][(resp'.op \in CreateOps /\ MissingRequired(resp'.op, resp'.req))
       => (resp'.status = 422 /\ db' = db /\ nextId' = nextId)]_vars

C4_Witness ==
  /\ resp.op = "create_invoice" /\ resp.status = 422
  /\ HasItems(resp.req) /\ "customer_id" \in DOMAIN resp.req
  /\ MissingRequired(resp.op, resp.req)
  /\ Len(db["invoice"]) = 1 /\ Len(db["customer"]) = 1

\* a listed document d is the record c a create call returned
SameRecord(d, c) ==
  /\ "_id" \in DOMAIN d /\ d["_id"].t = "str" /\ d["_id"] = c["id"]
  /\ "created_at" \in DOMAIN d /\ d["created_at"].t = "datetime"
  /\ \A k \in (DOMAIN c) \ {"id"} : k \in DOMAIN d /\ d[k] = c[k]
Listed(c) == \E i \in 1..Len(resp.body) : SameRecord(resp.body[i], c)
EffectiveLimit ==
  IF "limit" \in DOMAIN resp.req THEN resp.req["limit"]
  ELSE IF resp.op = "list_products" THEN 100 ELSE 50

(* C5 as stated: every record a create call returned appears in the result *)
(* of every later list call on its resource, with the same field values, a *)
(* string identifier and a created_at, also when the collection holds      *)
(* limit or more documents (taken here for the limits >= 1).               *)
C5_RoundTripAnyLimit ==
  (resp.op \in ListOps /\ resp.status = 200 /\ EffectiveLimit >= 1) =>
    \A c \in created[CollOf(resp.op)] : Listed(c)

(* C5 amended: every record a create call returned appears in the result   *)
(* of a later list call on its resource, with the same field values, a     *)
(* string identifier and a created_at, whenever the collection holds at    *)
(* most limit documents at the time of the list call.                      *)
C5_RoundTripWithinLimit ==
  (/\ resp.op \in ListOps /\ resp.status = 200
   /\ Len(db[CollOf(resp.op)]) <= EffectiveLimit) =>
    \A c \in created[CollOf(resp.op)] : Listed(c)

C5_Witness ==
  /\ resp.op = "list_invoices" /\ resp.status = 200
  /\ "limit" \notin DOMAIN resp.req
  /\ Cardinality(created["invoice"]) = 2
  /\ \A c \in created["invoice"] : Listed(c)

\* every listed document is a document of collection coll, its _id a string
FromCollection(body, coll) ==
  \A i \in 1..Len(body) :
    /\ body[i]["_id"].t = "str"
    /\ \E j \in 1..Len(db[coll]) :
         /\ PyStr(db[coll][j]["_id"]) = body[i]["_id"]
         /\ \A k \in (DOMAIN body[i]) \ {"_id"} : body[i][k] = db[coll][j][k]
         /\ DOMAIN body[i] = DOMAIN db[coll][j]

MalformedEmail(d) ==
  "email" \in DOMAIN d /\ d["email"] # None /\ ~IsEmail(d["email"].v)
C7_MalformedEmailRejected ==
  /\ (resp.op = "create_customer" /\ MalformedEmail(resp.req)) => resp.status = 422
  /\ (resp.op \in DOMAIN EmailFieldOf /\ resp.status # 0
        /\ MalformedEmail([email |-> Get(resp.req, EmailFieldOf[resp.op], None)]))
       => resp.status = 422
  /\ \A i \in 1..Len(db["customer"]) : ~MalformedEmail(db["customer"][i])

(* C9: every stored invoice has status "draft", a created_at timestamp and *)
(* a total equal to the value derived from its own items; a status or a    *)
(* total the caller supplied never reaches the storage.                    *)
C9_StoredInvoiceDerived ==
  /\ \A i \in 1..Len(db["invoice"]) :
       LET d == db["invoice"][i] IN
         /\ d["status"] = Str(<<"draft">>)
         /\ "created_at" \in DOMAIN d /\ d["created_at"].t = "datetime"
         /\ IsRounded2(d["total"].v, ExactSum(d["items"].v))
  /\ (resp.op = "create_invoice" /\ resp.status = 200) =>
       /\ ("status" \in DOMAIN resp.req /\ resp.req["status"] # Str(<<"draft">>))
            => Last(db["invoice"])["status"] # resp.req["status"]
       /\ ("total" \in DOMAIN resp.req
             /\ ~IsRounded2(resp.req["total"].v, ExactSum(resp.req["items"].v)))
            => Last(db["invoice"])["total"] # resp.req["total"]

C9_Witness ==
  /\ resp.op = "create_invoice" /\ resp.status = 200
  /\ "status" \in DOMAIN resp.req /\ resp.req["status"] = Str(<<"paid">>)
  /\ "total" \in DOMAIN resp.req /\ resp.req["total"] = Num(99999)
  /\ Last(db["invoice"])["status"] = Str(<<"draft">>)
  /\ Last(db["invoice"])["total"] = Num(56)

(* C8: a Supplier is accepted with a rating of exactly 0, exactly 5 or no   *)
(* rating (which stays None) and rejected with any rating below 0 or above *)
(* 5; an InvoiceItem is accepted exactly when quantity > 0 and price >= 0. *)
Validated == resp.status # 0
C8_NumericBounds ==
  /\ (/\ resp.op = "Supplier" /\ Validated
      /\ "name" \in DOMAIN resp.req /\ ~MalformedEmail(resp.req)) =>
       /\ resp.status = 200 <=>
            \/ "rating" \notin DOMAIN resp.req
            \/ resp.req["rating"] = None
            \/ resp.req["rating"].v >= 0 /\ resp.req["rating"].v <= 500
       /\ (resp.status = 200 /\ "rating" \notin DOMAIN resp.req) => resp.body["rating"] = None
       /\ (resp.status = 200 /\ "rating" \in DOMAIN resp.req)
            => resp.body["rating"] = resp.req["rating"]
  /\ (resp.op = "InvoiceItem" /\ Validated) =>
       (resp.status = 200 <=> (resp.req["quantity"].v > 0 /\ resp.req["price"].v >= 0))

C8_Witness ==
  /\ resp.op = "Supplier" /\ resp.status = 200
  /\ "rating" \in DOMAIN resp.req /\ resp.req["rating"] = Num(500)
  /\ resp.body["rating"] = Num(500)

(* C10: in every interleaving of concurrent create_invoice requests, each  *)
(* request that succeeded has exactly one stored document, that document   *)
(* carries the request's own fields and the total of the request's own     *)
(* items, and nothing else is stored.                                      *)
OwnDocument(d, self) ==
  /\ d["customer_id"] = req[self]["customer_id"]
  /\ d["currency"] = Get(req[self], "currency", Str(<<"IDR">>))
  /\ Len(d["items"].v) = Len(req[self]["items"].v)
  /\ \A j \in 1..Len(d["items"].v) :
       \A k \in DOMAIN req[self]["items"].v[j] :
         d["items"].v[j][k] = req[self]["items"].v[j][k]
  /\ IsRounded2(d["total"].v, ExactSum(req[self]["items"].v))
  /\ d["status"] = Str(<<"draft">>)
DocsOf(self) ==
  { i \in 1..Len(db["invoice"]) : PyStr(db["invoice"][i]["_id"]) = loc[self]["id"] }
C10_ConcurrentCreatesIndependent ==
  /\ \A self \in Procs :
       pc[self] = "done" =>
         /\ Cardinality(DocsOf(self)) = 1
         /\ \A i \in DocsOf(self) : OwnDocument(db["invoice"][i], self)
  /\ Len(db["invoice"]) = Cardinality({self \in Procs : pc[self] = "done"})

\* both requests done, stored in the order opposite to their derivation
C10_Witness ==
  /\ pc[1] = "done" /\ pc[2] = "done"
  /\ req[1] # req[2]
  /\ DocsOf(2) = {1} /\ DocsOf(1) = {2}
  /\ db["invoice"][1]["created_at"].v > db["invoice"][2]["created_at"].v

====
